---- MODULE Spec2Model ----
(***************************************************************************)
(* Speech-to-text backend: the transcription lifecycle                     *)
(* (controllers/transcriptionController.ts, services/deepgramService.ts,   *)
(* utils/fileUpload.ts) and account/session management                     *)
(* (controllers/authController.ts, utils/jwt.ts, shared/schema.ts).        *)
(*                                                                         *)
(* Node runs the handlers on one event loop: the code between two awaits   *)
(* is one atomic step, and every await of an I/O operation is a point      *)
(* where other handlers and callbacks interleave.                          *)
(***************************************************************************)
EXTENDS Integers, Sequences, FiniteSets, TLC

VARIABLES
    users,      \* user collection: userId -> user document
    now,        \* wall clock, in units of 15 minutes
    tokens,     \* access tokens issued so far (held by clients)
    pending,    \* register requests suspended between lookup and save
    http,       \* the last response sent by a non-upload handler
    recs,       \* transcription collection: record id -> stored document
    disk,       \* paths of the files present in the upload directory
    req,        \* uploadAndTranscribe invocations: slot -> handler position
    doc,        \* in-memory mongoose document held by a slot's closure
    task,       \* background provider task of a slot
    res,        \* the response sent to a slot's upload request
    acct        \* the account request (deleteAccount, updateProfile) in flight

vars == <<users, now, tokens, pending, http, recs, disk, req, doc, task, res, acct>>
authVars == <<users, now, tokens, pending>>
txVars == <<recs, disk, req, doc, task, res>>

----------------------------------------------------------------------------
(* Bounds of the model *)

MaxUploads == 1
MaxUsers == 2
MaxTime == 3
MaxTokens == 2
MaxTokenVersion == 1
MaxPending == 2
MaxPair == 2

Slots == 1..MaxUploads
UserIds == 1..MaxUsers

Absent == "<absent>"
NoResponse == [status |-> 0, recStatus |-> Absent]
NoHttp == [op |-> "none", status |-> 0, code |-> Absent]

----------------------------------------------------------------------------
(* Strings whose characters the code inspects (emails, usernames, passwords)
   are sequences of one-character strings. *)

UpperAlphabet == <<"A", "B", "C", "D", "E", "F", "G", "H", "I", "J", "K", "L", "M",
                   "N", "O", "P", "Q", "R", "S", "T", "U", "V", "W", "X", "Y", "Z">>
LowerAlphabet == <<"a", "b", "c", "d", "e", "f", "g", "h", "i", "j", "k", "l", "m",
                   "n", "o", "p", "q", "r", "s", "t", "u", "v", "w", "x", "y", "z">>

UpperLetters == {UpperAlphabet[i] : i \in DOMAIN UpperAlphabet}
LowerLetters == {LowerAlphabet[i] : i \in DOMAIN LowerAlphabet}
Letters == UpperLetters \cup LowerLetters
Digits == {"0", "1", "2", "3", "4", "5", "6", "7", "8", "9"}

\* String.prototype.toLowerCase / zod's .toLowerCase().
toLowerCase(str) ==
    [i \in DOMAIN str |->
        IF str[i] \in UpperLetters
        THEN LowerAlphabet[CHOOSE k \in DOMAIN UpperAlphabet : UpperAlphabet[k] = str[i]]
        ELSE str[i]]

----------------------------------------------------------------------------
(* utils/fileUpload.ts: multer configuration and file helpers *)

MaxFileSize == 50 * 1024 * 1024

allowedMimes ==
    {"audio/mpeg", "audio/mp3", "audio/wav", "audio/wave", "audio/x-wav",
     "audio/webm", "audio/mp4", "audio/m4a", "audio/aac", "audio/ogg",
     "audio/opus", "audio/flac", "video/mp4", "video/webm"}

allowedExtensions ==
    {".mp3", ".wav", ".webm", ".mp4", ".m4a", ".aac", ".ogg", ".opus", ".flac"}

\* String.prototype.toLowerCase on the extensions the model uploads.
ExtToLowerCase(e) ==
    CASE e = ".WAV" -> ".wav"
      [] e = ".TXT" -> ".txt"
      [] OTHER -> e

\* The multipart payloads a client sends; NoFile is a request without the
\* "audio" field.
NoFile == [present |-> FALSE, ext |-> Absent, mimetype |-> Absent, size |-> 0]

Files ==
    { NoFile,
      [present |-> TRUE, ext |-> ".WAV", mimetype |-> "audio/wav", size |-> 1048576],
      [present |-> TRUE, ext |-> ".TXT", mimetype |-> "application/octet-stream", size |-> 10],
      [present |-> TRUE, ext |-> ".txt", mimetype |-> "audio/mpeg", size |-> 1048576],
      [present |-> TRUE, ext |-> ".txt", mimetype |-> "text/plain", size |-> 1048576],
      [present |-> TRUE, ext |-> ".wav", mimetype |-> "audio/wav", size |-> MaxFileSize + 1] }

\* multer's fileFilter: the MIME type OR the extension is allow-listed.
fileFilter(file) ==
    \/ file.mimetype \in allowedMimes
    \/ ExtToLowerCase(file.ext) \in allowedExtensions

\* upload.single("audio"): "stored" when the file reaches the handler on disk,
\* "none" when the request carries no file, "error" when multer calls
\* next(err) (rejected by the filter, or over the size limit: the partial file
\* is removed by multer).
multerSingle(file) ==
    IF ~file.present THEN "none"
    ELSE IF ~fileFilter(file) THEN "error"
    ELSE IF file.size > MaxFileSize THEN "error"
    ELSE "stored"

validateAudioFile(file) ==
    IF ~file.present THEN FALSE
    ELSE IF file.size > MaxFileSize THEN FALSE
    ELSE ExtToLowerCase(file.ext) \in allowedExtensions

Max(a, b) == IF a >= b THEN a ELSE b

\* Math.max(1, Math.round(size / 2^20 * 60)), in integer arithmetic.
getAudioDuration(size) == Max(1, (size * 30 + 262144) \div 524288)

\* Variant: a cleanup that leaves the file in place.
cleanupFileKeep(files, path) == files

\* cleanupFile: unlink when the path exists.
cleanupFile(files, path) == files \ {path}

----------------------------------------------------------------------------
(* shared/schema.ts: request body schemas of the transcription routes *)

DefaultTitle == "New Transcription"
LongTitle == "<a title of 201 characters>"

TitleLength(t) ==
    CASE t = "" -> 0
      [] t = LongTitle -> 201
      [] OTHER -> 4

TitleOk(t) == TitleLength(t) >= 1 /\ TitleLength(t) <= 200

Sources == {"upload", "recording"}

\* Bodies of POST /transcriptions/upload.
CreateBodies ==
    { [title |-> Absent, source |-> Absent],
      [title |-> "Memo", source |-> "recording"],
      [title |-> "", source |-> "upload"],
      [title |-> "Memo", source |-> "stream"] }

\* createTranscriptionSchema.safeParse: the parsed data with the defaults
\* filled in, or success = FALSE.
createTranscriptionSchema(body) ==
    IF body.title # Absent /\ ~TitleOk(body.title) THEN [success |-> FALSE]
    ELSE IF body.source # Absent /\ body.source \notin Sources THEN [success |-> FALSE]
    ELSE [success |-> TRUE,
          title |-> IF body.title = Absent THEN DefaultTitle ELSE body.title,
          source |-> IF body.source = Absent THEN "upload" ELSE body.source]

\* Bodies of PUT /transcriptions/:id. zod strips the keys the schema does not
\* name, so a "status" key never reaches the update.
UpdateBodies ==
    { [title |-> "Edit", status |-> Absent],
      [title |-> Absent, status |-> "processing"],
      [title |-> "", status |-> Absent] }

\* Variant: a schema that lets the "status" key through.
updateTranscriptionSchemaPassthrough(body) ==
    IF body.title # Absent /\ ~TitleOk(body.title) THEN [success |-> FALSE]
    ELSE [success |-> TRUE, title |-> body.title, status |-> body.status]

updateTranscriptionSchema(body) ==
    IF body.title # Absent /\ ~TitleOk(body.title) THEN [success |-> FALSE]
    ELSE [success |-> TRUE, title |-> body.title, status |-> Absent]

----------------------------------------------------------------------------
(* services/deepgramService.ts: the provider client *)

\* What the Deepgram SDK call can produce: an error (returned or thrown, a
\* timeout included), a result without channels/alternatives, or a result
\* whose first alternative carries transcript/confidence (confidence scaled
\* by 100; a field is a set, empty when the provider omits it).
ProviderResponses ==
    { [kind |-> "error", transcript |-> {}, confidence |-> {}, duration |-> {}],
      [kind |-> "noalternative", transcript |-> {}, confidence |-> {}, duration |-> {}],
      [kind |-> "alternative", transcript |-> {"hello world"}, confidence |-> {93}, duration |-> {7}],
      [kind |-> "alternative", transcript |-> {"hello world"}, confidence |-> {}, duration |-> {}],
      [kind |-> "alternative", transcript |-> {""}, confidence |-> {0}, duration |-> {7}],
      [kind |-> "alternative", transcript |-> {"hello world"}, confidence |-> {150}, duration |-> {7}] }

NoProviderResponse ==
    [kind |-> "none", transcript |-> {}, confidence |-> {}, duration |-> {}]

NoResult == [ok |-> FALSE, transcription |-> "", confidence |-> 0, duration |-> 0,
             metadata |-> Absent]

\* x || dflt on an optional string / number (undefined, "" and 0 are falsy).
StrOrElse(x, dflt) ==
    IF x = {} THEN dflt
    ELSE LET v == CHOOSE y \in x : TRUE IN IF v = "" THEN dflt ELSE v

NumOrElse(x, dflt) ==
    IF x = {} THEN dflt
    ELSE LET v == CHOOSE y \in x : TRUE IN IF v = 0 THEN dflt ELSE v

\* DeepgramService.transcribeFile once the SDK call has answered: throws
\* (ok = FALSE) on an error or a missing alternative,
\* otherwise returns the extracted fields.
transcribe(response) ==
    IF response.kind = "error" THEN NoResult
    ELSE IF response.kind = "noalternative" THEN NoResult
    ELSE [ok |-> TRUE,
          transcription |-> StrOrElse(response.transcript, ""),
          confidence |-> NumOrElse(response.confidence, 0),
          duration |-> NumOrElse(response.duration, 0),
          metadata |-> "deepgram-metadata"]

\* Variant: a buffer client that reports a missing transcript as a failure.
transcribeBufferStrict(response) ==
    IF response.kind # "alternative" THEN NoResult
    ELSE IF StrOrElse(response.transcript, "") = "" THEN NoResult
    ELSE [ok |-> TRUE,
          transcription |-> StrOrElse(response.transcript, ""),
          confidence |-> NumOrElse(response.confidence, 0),
          duration |-> NumOrElse(response.duration, 0),
          metadata |-> "deepgram-metadata"]

\* DeepgramService.transcribeBuffer once the SDK call has answered.
transcribeBuffer(response) ==
    IF response.kind = "error" THEN NoResult
    ELSE IF response.kind = "noalternative" THEN NoResult
    ELSE [ok |-> TRUE,
          transcription |-> StrOrElse(response.transcript, ""),
          confidence |-> NumOrElse(response.confidence, 0),
          duration |-> NumOrElse(response.duration, 0),
          metadata |-> "deepgram-metadata"]

----------------------------------------------------------------------------
(* models/Transcription.ts: schema validation run by save() *)

\* confidence: { min: 0, max: 1 }, scaled by 100.
ConfidenceValid(c) == c >= 0 /\ c <= 100

Statuses == {"processing", "completed", "failed"}

validateDoc(d) == ConfidenceValid(d.confidence) /\ d.status \in Statuses

\* document.save() of an existing document: $set of the modified paths,
\* rejected when validation fails, when the database call fails (dbOk =
\* FALSE) or when no stored document has that id any more.
SaveSucceeds(s, d, dbOk) == dbOk /\ validateDoc(d) /\ s \in DOMAIN recs

\* Variant: a save that writes every path of the in-memory document.
SavedWhole(stored, d) ==
    [f \in DOMAIN stored |-> IF f \in DOMAIN d \ {"dirty"} THEN d[f] ELSE stored[f]]

Saved(stored, d) ==
    [f \in DOMAIN stored |-> IF f \in d.dirty THEN d[f] ELSE stored[f]]

\* The in-memory document: the paths the callbacks assign, the title it was
\* created with, and the paths modified since the last save.
NoDoc == [title |-> Absent, transcription |-> "", confidence |-> 0, duration |-> 0,
          status |-> "processing", metadata |-> Absent, dirty |-> {}]

NoReq == [pc |-> "idle", userId |-> 0, file |-> NoFile, path |-> 0,
          title |-> Absent, source |-> Absent, username |-> <<>>,
          email |-> <<>>]

\* The handler has returned: of its locals only filePath stays alive, in the
\* closures of the callbacks.
Returned(r) == [NoReq EXCEPT !.pc = "done", !.path = r.path]

\* via: the invocation strategy, "file" (transcribeFile) or "buffer"
\* (transcribeRecordingOptimized / transcribeBuffer).
NoTask == [pc |-> "none", via |-> "none", answered |-> "no",
           response |-> NoProviderResponse]

\* The account request in flight: its handler position and locals (owned: the
\* user's records, id and file, when the request arrived; stuck: the files
\* whose unlinkSync threw), then its response.
NoAcct == [op |-> "none", pc |-> "idle", userId |-> 0,
          data |-> [username |-> {}, email |-> {}],
          owned |-> {}, found |-> {}, stuck |-> {}, filesDeleted |-> 0,
          deletedCount |-> 0, status |-> 0]

----------------------------------------------------------------------------
(* controllers/transcriptionController.ts: uploadAndTranscribe *)

\* The document built by new TranscriptionModel({...}) from the request and
\* the owner found by findById.
NewRecord(r, owner, duration) ==
    [userId |-> r.userId, username |-> owner.username, email |-> owner.email,
     title |-> r.title, originalFilename |-> r.file.ext, fileUrl |-> r.path,
     mimeType |-> r.file.mimetype, fileSize |-> r.file.size,
     duration |-> duration, transcription |-> "", confidence |-> 0,
     status |-> "processing", source |-> r.source, metadata |-> Absent]

NewDoc(title, duration) == [NoDoc EXCEPT !.title = title, !.duration = duration]

\* The .then callback up to its save(): the provider result is copied into
\* the in-memory document.
ThenHandler(d, result, estimate) ==
    [d EXCEPT !.transcription = result.transcription,
              !.confidence = result.confidence,
              !.duration = IF result.duration = 0 THEN estimate ELSE result.duration,
              !.status = "completed",
              !.metadata = result.metadata,
              !.dirty = {"transcription", "confidence", "duration", "status", "metadata"}]

\* The .catch callback up to its save().
CatchHandler(d) ==
    [d EXCEPT !.status = "failed", !.dirty = d.dirty \cup {"status"}]

\* The route's middleware (authenticateToken has put userId u on the request,
\* then upload.single("audio")) and the handler up to its first await.
UploadReceive(s, u, file, body) ==
    /\ req[s].pc = "idle"
    /\ LET m == multerSingle(file)
           parsed == createTranscriptionSchema(body)
       IN  IF m = "error" THEN
               \* next(err): the global error handler answers, the handler never runs
               /\ res' = [res EXCEPT ![s] = [status |-> 500, recStatus |-> Absent]]
               /\ req' = [req EXCEPT ![s] = Returned(req[s])]
               /\ UNCHANGED disk
           ELSE IF m = "none" THEN
               /\ res' = [res EXCEPT ![s] = [status |-> 400, recStatus |-> Absent]]
               /\ req' = [req EXCEPT ![s] = Returned(req[s])]
               /\ UNCHANGED disk
           ELSE
               /\ disk' = disk \cup {s}
               /\ IF ~validateAudioFile(file) \/ ~parsed.success THEN
                      /\ res' = [res EXCEPT ![s] = [status |-> 400, recStatus |-> Absent]]
                      /\ req' = [req EXCEPT ![s] = Returned(req[s])]
                  ELSE
                      /\ req' = [req EXCEPT ![s] =
                                    [NoReq EXCEPT !.pc = "findUser", !.userId = u,
                                                  !.file = file, !.path = s,
                                                  !.title = parsed.title,
                                                  !.source = parsed.source]]
                      /\ UNCHANGED res
    /\ UNCHANGED <<recs, doc, task, http>>
    /\ UNCHANGED <<authVars, acct>>

\* The provider invocation chosen by the source, up to its first await:
\* transcribeRecordingOptimized reads the file synchronously (a throw rejects
\* the promise) and calls the provider; transcribeFile awaits readFile first.
StartTask(source, fileOnDisk) ==
    IF source = "recording"
    THEN IF fileOnDisk THEN [NoTask EXCEPT !.pc = "calling", !.via = "buffer"]
                       ELSE [NoTask EXCEPT !.pc = "catchSave", !.via = "buffer",
                                           !.answered = "error"]
    ELSE [NoTask EXCEPT !.pc = "reading", !.via = "file"]

\* Variant: the provider call is started before the first save() is awaited.
UploadFoundUserEager(s) ==
    /\ req[s].pc = "findUser"
    /\ IF req[s].userId \notin DOMAIN users THEN
           /\ res' = [res EXCEPT ![s] = [status |-> 404, recStatus |-> Absent]]
           /\ req' = [req EXCEPT ![s] = Returned(req[s])]
           /\ UNCHANGED <<doc, disk, task>>
       ELSE IF req[s].path \notin disk THEN
           /\ disk' = cleanupFile(disk, req[s].path)
           /\ res' = [res EXCEPT ![s] = [status |-> 500, recStatus |-> Absent]]
           /\ req' = [req EXCEPT ![s] = Returned(req[s])]
           /\ UNCHANGED <<doc, task>>
       ELSE
           /\ doc' = [doc EXCEPT ![s] = NewDoc(req[s].title,
                                                    getAudioDuration(req[s].file.size))]
           /\ req' = [req EXCEPT ![s].pc = "saving",
                                 ![s].username = users[req[s].userId].username,
                                 ![s].email = users[req[s].userId].email]
           /\ task' = [task EXCEPT ![s] = StartTask(req[s].source, TRUE)]
           /\ UNCHANGED <<res, disk>>
    /\ UNCHANGED <<recs, http>>
    /\ UNCHANGED <<authVars, acct>>

\* UserModel.findById answers; the file is read, its duration estimated and
\* the first save() issued.
UploadFoundUser(s) ==
    /\ req[s].pc = "findUser"
    /\ IF req[s].userId \notin DOMAIN users THEN
           /\ res' = [res EXCEPT ![s] = [status |-> 404, recStatus |-> Absent]]
           /\ req' = [req EXCEPT ![s] = Returned(req[s])]
           /\ UNCHANGED <<doc, disk>>
       ELSE IF req[s].path \notin disk THEN
           \* readFileSync throws: the catch block cleans up and answers 500
           /\ disk' = cleanupFile(disk, req[s].path)
           /\ res' = [res EXCEPT ![s] = [status |-> 500, recStatus |-> Absent]]
           /\ req' = [req EXCEPT ![s] = Returned(req[s])]
           /\ UNCHANGED doc
       ELSE
           /\ doc' = [doc EXCEPT ![s] = NewDoc(req[s].title,
                                                    getAudioDuration(req[s].file.size))]
           /\ req' = [req EXCEPT ![s].pc = "saving",
                                 ![s].username = users[req[s].userId].username,
                                 ![s].email = users[req[s].userId].email]
           /\ UNCHANGED <<res, disk>>
    /\ UNCHANGED <<recs, task, http>>
    /\ UNCHANGED <<authVars, acct>>

\* Variant: the handler awaits the provider promise before it answers.
StartAndRespondAwaiting(s) ==
    LET started == StartTask(req[s].source, req[s].path \in disk)
    IN  /\ task' = [task EXCEPT ![s] = started]
        /\ doc' = [doc EXCEPT ![s] = IF started.pc = "catchSave"
                                     THEN CatchHandler(doc[s]) ELSE doc[s]]
        /\ req' = [req EXCEPT ![s] = Returned(req[s])]
        /\ UNCHANGED res

\* What the handler does once the first save() has succeeded: the provider
\* call is started, the callbacks attached and the 201 sent, in one
\* synchronous run; a promise rejected already runs .catch right after it.
StartAndRespond(s) ==
    LET started == StartTask(req[s].source, req[s].path \in disk)
    IN  /\ task' = [task EXCEPT ![s] = started]
        /\ res' = [res EXCEPT ![s] = [status |-> 201, recStatus |-> doc[s].status]]
        /\ doc' = [doc EXCEPT ![s] = IF started.pc = "catchSave"
                                     THEN CatchHandler(doc[s]) ELSE doc[s]]
        /\ req' = [req EXCEPT ![s] = Returned(req[s])]

\* The first save() answers.
UploadSaved(s, dbOk) ==
    /\ req[s].pc = "saving"
    /\ IF dbOk THEN
           /\ recs' = (s :> NewRecord(req[s], req[s], doc[s].duration)) @@ recs
           /\ StartAndRespond(s)
           /\ UNCHANGED disk
       ELSE
           /\ disk' = cleanupFile(disk, req[s].path)
           /\ res' = [res EXCEPT ![s] = [status |-> 500, recStatus |-> Absent]]
           /\ req' = [req EXCEPT ![s] = Returned(req[s])]
           /\ UNCHANGED <<recs, task, doc>>
    /\ UNCHANGED http
    /\ UNCHANGED <<authVars, acct>>

\* Variant: a rejected provider call is tried again.
EnterCatchRetry(s, answered, response) ==
    /\ task' = [task EXCEPT ![s].pc = "calling", ![s].answered = answered,
                            ![s].response = response]
    /\ UNCHANGED doc

\* A rejection of the provider promise reaches .catch: status := failed and
\* save() is issued.
EnterCatch(s, answered, response) ==
    /\ doc' = [doc EXCEPT ![s] = CatchHandler(doc[s])]
    /\ task' = [task EXCEPT ![s].pc = "catchSave", ![s].answered = answered,
                             ![s].response = response]

\* transcribeFile's readFile answers.
TaskRead(s) ==
    /\ task[s].pc = "reading"
    /\ IF req[s].path \in disk
       THEN /\ task' = [task EXCEPT ![s].pc = "calling"]
            /\ UNCHANGED doc
       ELSE EnterCatch(s, "error", NoProviderResponse)
    /\ UNCHANGED <<recs, disk, req, res, http>>
    /\ UNCHANGED <<authVars, acct>>

\* The provider answers; the promise settles and the callback attached to it
\* runs up to its save().
ProviderAnswer(s, response) ==
    /\ task[s].pc = "calling"
    /\ LET result == IF task[s].via = "buffer" THEN transcribeBuffer(response)
                                               ELSE transcribe(response)
       IN  IF result.ok
           THEN /\ doc' = [doc EXCEPT ![s] = ThenHandler(doc[s], result, doc[s].duration)]
                /\ task' = [task EXCEPT ![s].pc = "thenSave", ![s].answered = "ok",
                                        ![s].response = response]
           ELSE EnterCatch(s, "error", response)
    /\ UNCHANGED <<recs, disk, req, res, http>>
    /\ UNCHANGED <<authVars, acct>>

\* Variant: a save that inserts the document when none is stored under its
\* id.
ThenSavedUpsert(s, dbOk) ==
    /\ task[s].pc = "thenSave"
    /\ IF dbOk /\ validateDoc(doc[s])
       THEN /\ recs' = (s :> Saved(IF s \in DOMAIN recs THEN recs[s]
                                   ELSE NewRecord(req[s], req[s], doc[s].duration),
                                   doc[s])) @@ recs
            /\ doc' = [doc EXCEPT ![s].dirty = {}]
            /\ task' = [task EXCEPT ![s].pc = "done"]
       ELSE /\ doc' = [doc EXCEPT ![s] = CatchHandler(doc[s])]
            /\ task' = [task EXCEPT ![s].pc = "catchSave"]
            /\ UNCHANGED recs
    /\ UNCHANGED <<disk, req, res, http>>
    /\ UNCHANGED <<authVars, acct>>

\* The save() of the .then callback answers; its rejection is caught by the
\* .catch attached after it.
ThenSaved(s, dbOk) ==
    /\ task[s].pc = "thenSave"
    /\ IF SaveSucceeds(s, doc[s], dbOk)
       THEN /\ recs' = [recs EXCEPT ![s] = Saved(recs[s], doc[s])]
            /\ doc' = [doc EXCEPT ![s].dirty = {}]
            /\ task' = [task EXCEPT ![s].pc = "done"]
       ELSE /\ doc' = [doc EXCEPT ![s] = CatchHandler(doc[s])]
            /\ task' = [task EXCEPT ![s].pc = "catchSave"]
            /\ UNCHANGED recs
    /\ UNCHANGED <<disk, req, res, http>>
    /\ UNCHANGED <<authVars, acct>>

\* The save() of the .catch callback answers: on success the file is cleaned
\* up; a rejection here is unhandled and ends the task.
CatchSaved(s, dbOk) ==
    /\ task[s].pc = "catchSave"
    /\ IF SaveSucceeds(s, doc[s], dbOk)
       THEN /\ recs' = [recs EXCEPT ![s] = Saved(recs[s], doc[s])]
            /\ doc' = [doc EXCEPT ![s].dirty = {}]
            /\ disk' = cleanupFile(disk, req[s].path)
            /\ task' = [task EXCEPT ![s].pc = "done"]
       ELSE /\ task' = [task EXCEPT ![s].pc = "crashed"]
            /\ UNCHANGED <<recs, doc, disk>>
    /\ UNCHANGED <<req, res, http>>
    /\ UNCHANGED <<authVars, acct>>

----------------------------------------------------------------------------
(* controllers/transcriptionController.ts: updateTranscription *)

\* findOneAndUpdate({_id, userId}, validation.data): only the keys the schema
\* kept are written.
ApplyUpdate(stored, data) ==
    [stored EXCEPT !.title = IF data.title = Absent THEN @ ELSE data.title,
                   !.status = IF data.status = Absent THEN @ ELSE data.status]

updateTranscription(u, id, body) ==
    /\ LET validation == updateTranscriptionSchema(body)
       IN  IF ~validation.success THEN
               /\ http' = [op |-> "updateTranscription", status |-> 400, code |-> Absent]
               /\ UNCHANGED recs
           ELSE IF id \in DOMAIN recs /\ recs[id].userId = u THEN
               /\ recs' = [recs EXCEPT ![id] = ApplyUpdate(recs[id], validation)]
               /\ http' = [op |-> "updateTranscription", status |-> 200, code |-> Absent]
           ELSE
               /\ http' = [op |-> "updateTranscription", status |-> 404, code |-> Absent]
               /\ UNCHANGED recs
    /\ UNCHANGED <<disk, req, doc, task, res>>
    /\ UNCHANGED <<authVars, acct>>

----------------------------------------------------------------------------
(* controllers/transcriptionController.ts: deleteTranscription *)

\* bcrypt: a salted hash, and compare(plain, hash).
Hash(p) == <<"$2a$">> \o p

\* Variant: a comparison that accepts every password.
compareAny(p, h) == TRUE

compare(p, h) == Hash(p) = h

Ann == <<"a", "n", "n">>
Bob == <<"b", "o", "b">>
EmailA == <<"a", "@", "x", ".", "i", "o">>
EmailB == <<"b", "@", "x", ".", "i", "o">>

Secret1 == <<"S", "e", "c", "r", "e", "t", "1", "!">>
Other22 == <<"O", "t", "h", "e", "r", "2", "2", "!">>
NoPassword == <<>>

Passwords == {Secret1, Other22}

\* Variant: a delete that does not verify the password.
deleteTranscriptionUnverified(u, id, password) ==
    /\ IF id \in DOMAIN recs /\ recs[id].userId = u THEN
           /\ recs' = [r \in DOMAIN recs \ {id} |-> recs[r]]
           /\ disk' = cleanupFile(disk, recs[id].fileUrl)
           /\ http' = [op |-> "deleteTranscription", status |-> 200, code |-> Absent]
       ELSE
           /\ http' = [op |-> "deleteTranscription", status |-> 404, code |-> Absent]
           /\ UNCHANGED <<recs, disk>>
    /\ UNCHANGED <<req, doc, task, res>>
    /\ UNCHANGED <<authVars, acct>>

deleteTranscription(u, id, password) ==
    /\ IF password = NoPassword THEN
           /\ http' = [op |-> "deleteTranscription", status |-> 400, code |-> Absent]
           /\ UNCHANGED <<recs, disk>>
       ELSE IF u \notin DOMAIN users THEN
           /\ http' = [op |-> "deleteTranscription", status |-> 404, code |-> Absent]
           /\ UNCHANGED <<recs, disk>>
       ELSE IF ~compare(password, users[u].password) THEN
           /\ http' = [op |-> "deleteTranscription", status |-> 401, code |-> Absent]
           /\ UNCHANGED <<recs, disk>>
       ELSE IF id \in DOMAIN recs /\ recs[id].userId = u THEN
           /\ recs' = [r \in DOMAIN recs \ {id} |-> recs[r]]
           /\ disk' = cleanupFile(disk, recs[id].fileUrl)
           /\ http' = [op |-> "deleteTranscription", status |-> 200, code |-> Absent]
       ELSE
           /\ http' = [op |-> "deleteTranscription", status |-> 404, code |-> Absent]
           /\ UNCHANGED <<recs, disk>>
    /\ UNCHANGED <<req, doc, task, res>>
    /\ UNCHANGED <<authVars, acct>>

----------------------------------------------------------------------------
(* The transcription lifecycle: registered users upload, the provider
   answers, owners and other users edit titles. *)

\* The accounts registered before the uploads start; the first one uploads,
\* every one of them edits and deletes.
TxUsers == {1, 2}
Uploaders == {1}

RegisteredUser(i) ==
    [username |-> IF i = 1 THEN Ann ELSE Bob,
     email |-> IF i = 1 THEN EmailA ELSE EmailB,
     password |-> Hash(Secret1), tokenVersion |-> 0, isActive |-> TRUE,
     loginAttempts |-> 0, lockUntil |-> 0]

Init ==
    /\ users = [i \in TxUsers |-> RegisteredUser(i)]
    /\ now = 0
    /\ tokens = {}
    /\ pending = {}
    /\ http = NoHttp
    /\ recs = <<>>
    /\ disk = {}
    /\ req = [s \in Slots |-> NoReq]
    /\ doc = [s \in Slots |-> NoDoc]
    /\ task = [s \in Slots |-> NoTask]
    /\ res = [s \in Slots |-> NoResponse]
    /\ acct = NoAcct

Next ==
    \/ \E s \in Slots, u \in Uploaders, file \in Files, body \in CreateBodies :
          UploadReceive(s, u, file, body)
    \/ \E s \in Slots : UploadFoundUser(s)
    \/ \E s \in Slots, dbOk \in BOOLEAN : UploadSaved(s, dbOk)
    \/ \E s \in Slots : TaskRead(s)
    \/ \E s \in Slots, response \in ProviderResponses : ProviderAnswer(s, response)
    \/ \E s \in Slots, dbOk \in BOOLEAN : ThenSaved(s, dbOk)
    \/ \E s \in Slots, dbOk \in BOOLEAN : CatchSaved(s, dbOk)
    \/ \E u \in TxUsers, id \in Slots, body \in UpdateBodies :
          updateTranscription(u, id, body)
    \/ \E u \in TxUsers, id \in Slots, password \in Passwords \cup {NoPassword} :
          deleteTranscription(u, id, password)

Spec == Init /\ [][Next]_vars

----------------------------------------------------------------------------
(* shared/schema.ts: the user schemas *)

LocalChars == Letters \cup Digits \cup {".", "_", "%", "+", "-"}
DomainChars == Letters \cup Digits \cup {".", "-"}
UsernameChars == Letters \cup Digits \cup {"_", "-"}

\* /^[a-zA-Z0-9._%+-]+@[a-zA-Z0-9.-]+\.[a-zA-Z]{2,}$/
emailRegex(e) ==
    \E at \in 1..Len(e), dot \in 1..Len(e) :
        /\ e[at] = "@" /\ at >= 2
        /\ \A j \in 1..(at - 1) : e[j] \in LocalChars
        /\ e[dot] = "." /\ dot >= at + 2
        /\ \A j \in (at + 1)..(dot - 1) : e[j] \in DomainChars
        /\ Len(e) - dot >= 2
        /\ \A j \in (dot + 1)..Len(e) : e[j] \in Letters

\* emailSchema: the checks run on the input, then .toLowerCase() transforms it.
emailSchema(e) ==
    [success |-> emailRegex(e) /\ Len(e) >= 5 /\ Len(e) <= 254,
     data |-> toLowerCase(e)]

passwordSchema(p) ==
    /\ Len(p) >= 8
    /\ \E i \in DOMAIN p : p[i] \in UpperLetters
    /\ \E i \in DOMAIN p : p[i] \in LowerLetters
    /\ \E i \in DOMAIN p : p[i] \in Digits
    /\ \E i \in DOMAIN p : p[i] \notin Letters \cup Digits

usernameSchema(n) ==
    /\ Len(n) >= 3 /\ Len(n) <= 30
    /\ \A i \in DOMAIN n : n[i] \in UsernameChars

insertUserSchema(body) ==
    [success |-> /\ usernameSchema(body.username)
                 /\ emailSchema(body.email).success
                 /\ passwordSchema(body.password),
     username |-> body.username,
     email |-> emailSchema(body.email).data,
     password |-> body.password]

loginUserSchema(body) ==
    [success |-> emailSchema(body.email).success /\ Len(body.password) >= 1,
     email |-> emailSchema(body.email).data,
     password |-> body.password]

EmailUpperA == <<"A", "@", "x", ".", "i", "o">>
EmailC == <<"c", "@", "x", ".", "i", "o">>
BadEmail == <<"a", "@", "x">>
BadUsername == <<"b", "!">>
Weak == <<"w", "e", "a", "k">>

RegisterBodies ==
    [username : {Ann, Bob}, email : {EmailA, EmailUpperA, EmailB}, password : {Secret1}]
    \cup { [username |-> Bob, email |-> BadEmail, password |-> Secret1],
           [username |-> BadUsername, email |-> EmailB, password |-> Secret1],
           [username |-> Bob, email |-> EmailB, password |-> Weak] }

LoginBodies ==
    [email : {EmailA, EmailUpperA}, password : {Secret1, Other22}]
    \cup { [email |-> EmailC, password |-> Secret1],
           [email |-> BadEmail, password |-> Secret1],
           [email |-> EmailA, password |-> NoPassword] }

----------------------------------------------------------------------------
(* models/User.ts: the user document's lock and token-epoch methods, and the
   unique indexes of the collection *)

MaxLoginAttempts == 5
\* ACCOUNT_LOCKOUT_TIME = 2h, in clock units of 15 minutes.
LockTime == 8

\* lockUntil = 0 stands for an unset lockUntil.
isLocked(user) == user.lockUntil # 0 /\ user.lockUntil > now

incLoginAttempts(user) ==
    IF user.lockUntil # 0 /\ user.lockUntil < now
    THEN [user EXCEPT !.loginAttempts = 1, !.lockUntil = 0]
    ELSE [user EXCEPT !.loginAttempts = @ + 1,
                      !.lockUntil = IF user.loginAttempts + 1 >= MaxLoginAttempts
                                       /\ ~isLocked(user)
                                    THEN now + LockTime ELSE @]

resetLoginAttempts(user) == [user EXCEPT !.loginAttempts = 0, !.lockUntil = 0]

incrementTokenVersion(user) == [user EXCEPT !.tokenVersion = @ + 1]

\* username and email carry unique indexes: an insert that repeats either is
\* rejected with a duplicate-key error.
UniqueIndexOk(username, email) ==
    \A u \in DOMAIN users : users[u].username # username /\ users[u].email # email

----------------------------------------------------------------------------
(* utils/jwt.ts *)

\* expiresIn: "15m", in clock units of 15 minutes.
AccessTTL == 1

\* What a request carries in its Authorization header: nothing, a string that
\* is no JWT, or a JWT (payload userId/tokenVersion, exp, and whether its
\* signature verifies under JWT_SECRET).
NoToken == [kind |-> "none", userId |-> 0, tokenVersion |-> 0, exp |-> 0, sig |-> Absent]
GarbageToken == [kind |-> "garbage", userId |-> 0, tokenVersion |-> 0, exp |-> 0, sig |-> Absent]

generateAccessToken(userId, tokenVersion) ==
    [kind |-> "jwt", userId |-> userId, tokenVersion |-> tokenVersion,
     exp |-> now + AccessTTL, sig |-> "valid"]

Forged(t) == [t EXCEPT !.sig = "forged"]

\* The tokens requests present: the issued ones, copies re-signed with another
\* key, a malformed one and none.
Presented == tokens \cup {Forged(t) : t \in tokens} \cup {NoToken, GarbageToken}

\* jwt.decode yields null for a string that is no JWT.
isTokenExpired(t) == IF t.kind # "jwt" THEN TRUE ELSE t.exp < now

\* jwt.verify: signature, issuer/audience and expiry (now >= exp is expired).
verifyAccessToken(t) == t.kind = "jwt" /\ t.sig = "valid" /\ now < t.exp

authenticateToken(t) ==
    IF t.kind = "none" THEN [ok |-> FALSE, status |-> 401, code |-> "TOKEN_MISSING"]
    ELSE IF isTokenExpired(t) THEN [ok |-> FALSE, status |-> 401, code |-> "TOKEN_EXPIRED"]
    ELSE IF ~verifyAccessToken(t) THEN [ok |-> FALSE, status |-> 403, code |-> "TOKEN_INVALID"]
    ELSE [ok |-> TRUE, status |-> 200, code |-> Absent]

Rejected(op, auth) == [op |-> op, status |-> auth.status, code |-> auth.code]

----------------------------------------------------------------------------
(* controllers/authController.ts *)

UserByEmail(email) == {u \in DOMAIN users : users[u].email = email}
UserByEmailOrUsername(email, username) ==
    {u \in DOMAIN users : users[u].email = email \/ users[u].username = username}

NewUserId ==
    CHOOSE i \in UserIds : i \notin DOMAIN users /\ \A j \in 1..(i - 1) : j \in DOMAIN users

\* register up to the await of bcrypt.hash: validation, then the combined
\* findOne({$or: [{email}, {username}]}).
RegisterLookup(id, body) ==
    /\ \A q \in pending : q.id # id
    /\ LET validation == insertUserSchema(body)
       IN  IF ~validation.success THEN
               /\ http' = [op |-> "register", status |-> 400, code |-> Absent]
               /\ UNCHANGED pending
           ELSE IF UserByEmailOrUsername(validation.email, validation.username) # {} THEN
               /\ http' = [op |-> "register", status |-> 409, code |-> Absent]
               /\ UNCHANGED pending
           ELSE
               /\ pending' = pending \cup
                     {[id |-> id, username |-> validation.username,
                       email |-> validation.email, password |-> Hash(validation.password)]}
               /\ UNCHANGED http
    /\ UNCHANGED <<users, now, tokens>>
    /\ UNCHANGED <<txVars, acct>>

\* register from user.save() on: a duplicate-key error is caught and answered
\* 500.
RegisterSave(q) ==
    /\ q \in pending
    /\ pending' = pending \ {q}
    /\ IF UniqueIndexOk(q.username, q.email) THEN
           /\ Cardinality(DOMAIN users) < MaxUsers
           /\ users' = (NewUserId :> [username |-> q.username, email |-> q.email,
                                      password |-> q.password, tokenVersion |-> 0,
                                      isActive |-> TRUE, loginAttempts |-> 0,
                                      lockUntil |-> 0]) @@ users
           /\ http' = [op |-> "register", status |-> 201, code |-> Absent]
       ELSE
           /\ http' = [op |-> "register", status |-> 500, code |-> Absent]
           /\ UNCHANGED users
    /\ UNCHANGED <<now, tokens>>
    /\ UNCHANGED <<txVars, acct>>

\* login with the password tested before the lock.
loginOutcomePasswordFirst(body) ==
    LET validation == loginUserSchema(body)
        found == UserByEmail(validation.email)
        user == users[CHOOSE u \in found : TRUE]
    IN  IF ~validation.success THEN "validation"
        ELSE IF found = {} THEN "unknown"
        ELSE IF ~compare(validation.password, user.password) THEN "wrongPassword"
        ELSE IF isLocked(user) THEN "locked"
        ELSE IF ~user.isActive THEN "deactivated"
        ELSE "success"

\* The branch login takes for a request body, in the order the handler tests.
loginOutcome(body) ==
    LET validation == loginUserSchema(body)
        found == UserByEmail(validation.email)
        user == users[CHOOSE u \in found : TRUE]
    IN  IF ~validation.success THEN "validation"
        ELSE IF found = {} THEN "unknown"
        ELSE IF isLocked(user) THEN "locked"
        ELSE IF ~user.isActive THEN "deactivated"
        ELSE IF ~compare(validation.password, user.password) THEN "wrongPassword"
        ELSE "success"

login(body) ==
    /\ LET outcome == loginOutcome(body)
           u == CHOOSE u \in UserByEmail(loginUserSchema(body).email) : TRUE
       IN  CASE outcome = "validation" ->
                   /\ http' = [op |-> "login", status |-> 400, code |-> Absent]
                   /\ UNCHANGED <<users, tokens>>
             [] outcome = "unknown" ->
                   /\ http' = [op |-> "login", status |-> 401, code |-> "INVALID_CREDENTIALS"]
                   /\ UNCHANGED <<users, tokens>>
             [] outcome = "locked" ->
                   /\ http' = [op |-> "login", status |-> 423, code |-> "ACCOUNT_LOCKED"]
                   /\ UNCHANGED <<users, tokens>>
             [] outcome = "deactivated" ->
                   /\ http' = [op |-> "login", status |-> 401, code |-> "ACCOUNT_DEACTIVATED"]
                   /\ UNCHANGED <<users, tokens>>
             [] outcome = "wrongPassword" ->
                   /\ users' = [users EXCEPT ![u] = incLoginAttempts(users[u])]
                   /\ http' = [op |-> "login", status |-> 401, code |-> "INVALID_CREDENTIALS"]
                   /\ UNCHANGED tokens
             [] outcome = "success" ->
                   /\ Cardinality(tokens) < MaxTokens
                   /\ users' = [users EXCEPT ![u] = resetLoginAttempts(users[u])]
                   /\ tokens' = tokens \cup {generateAccessToken(u, users[u].tokenVersion)}
                   /\ http' = [op |-> "login", status |-> 200, code |-> Absent]
    /\ UNCHANGED <<now, pending>>
    /\ UNCHANGED <<txVars, acct>>

\* GET /profile behind authenticateToken.
getProfile(t) ==
    /\ LET auth == authenticateToken(t)
       IN  http' = IF ~auth.ok THEN Rejected("getProfile", auth)
                   ELSE IF t.userId \notin DOMAIN users
                   THEN [op |-> "getProfile", status |-> 404, code |-> Absent]
                   ELSE [op |-> "getProfile", status |-> 200, code |-> Absent]
    /\ UNCHANGED <<users, now, tokens, pending>>
    /\ UNCHANGED <<txVars, acct>>

\* POST /auth/logout behind authenticateToken.
logout(t) ==
    /\ LET auth == authenticateToken(t)
       IN  http' = IF ~auth.ok THEN Rejected("logout", auth)
                   ELSE [op |-> "logout", status |-> 200, code |-> Absent]
    /\ UNCHANGED <<users, now, tokens, pending>>
    /\ UNCHANGED <<txVars, acct>>

\* POST /auth/logout-all behind authenticateToken.
logoutAllDevices(t) ==
    /\ LET auth == authenticateToken(t)
       IN  IF ~auth.ok THEN
               /\ http' = Rejected("logoutAllDevices", auth)
               /\ UNCHANGED users
           ELSE IF t.userId \notin DOMAIN users THEN
               /\ http' = [op |-> "logoutAllDevices", status |-> 404, code |-> Absent]
               /\ UNCHANGED users
           ELSE
               /\ users[t.userId].tokenVersion < MaxTokenVersion
               /\ users' = [users EXCEPT ![t.userId] = incrementTokenVersion(@)]
               /\ http' = [op |-> "logoutAllDevices", status |-> 200, code |-> Absent]
    /\ UNCHANGED <<now, tokens, pending>>
    /\ UNCHANGED <<txVars, acct>>

\* Time passes, step units of the clock at once.
Tick(step, limit) ==
    /\ now < limit
    /\ now' = now + step
    /\ UNCHANGED <<users, tokens, pending, http>>
    /\ UNCHANGED <<txVars, acct>>

----------------------------------------------------------------------------
(* Registration: clients register concurrently, each request split at its
   awaits. *)

NoUploads ==
    /\ recs = <<>>
    /\ disk = {}
    /\ req = [s \in Slots |-> NoReq]
    /\ doc = [s \in Slots |-> NoDoc]
    /\ task = [s \in Slots |-> NoTask]
    /\ res = [s \in Slots |-> NoResponse]
    /\ acct = NoAcct

InitRegister ==
    /\ users = <<>>
    /\ now = 0
    /\ tokens = {}
    /\ pending = {}
    /\ http = NoHttp
    /\ NoUploads

NextRegister ==
    \/ \E id \in 1..MaxPending, body \in RegisterBodies : RegisterLookup(id, body)
    \/ \E q \in pending : RegisterSave(q)

SpecRegister == InitRegister /\ [][NextRegister]_vars

----------------------------------------------------------------------------
(* Sessions: registered accounts log in, call protected routes and log out
   everywhere, while access tokens age. *)

SessionBodies ==
    { [email |-> EmailUpperA, password |-> Secret1],
      [email |-> EmailC, password |-> Secret1],
      [email |-> BadEmail, password |-> Secret1] }

InitAuth ==
    /\ users = [i \in TxUsers |-> RegisteredUser(i)]
    /\ now = 0
    /\ tokens = {}
    /\ pending = {}
    /\ http = NoHttp
    /\ NoUploads

NextAuth ==
    \/ \E body \in SessionBodies : login(body)
    \/ \E t \in Presented : getProfile(t)
    \/ \E t \in Presented : logout(t)
    \/ \E t \in Presented : logoutAllDevices(t)
    \/ Tick(1, MaxTime)

SpecAuth == InitAuth /\ [][NextAuth]_vars

----------------------------------------------------------------------------
(* Login attempts and lockout: registered accounts, logins, and a clock that
   runs past the lockout window. *)

InitLogin ==
    /\ users = [i \in TxUsers |-> RegisteredUser(i)]
    /\ now = 0
    /\ tokens = {}
    /\ pending = {}
    /\ http = NoHttp
    /\ NoUploads

NextLogin ==
    \/ \E body \in LoginBodies : login(body)
    \/ Tick(LockTime \div 2, LockTime + MaxTime)

SpecLogin == InitLogin /\ [][NextLogin]_vars

----------------------------------------------------------------------------
(* utils/fileUpload.ts (user controller): deleteAccount *)

\* deleteAccountSchema: password is a string of at least one character.
deleteAccountSchema(password) == Len(password) >= 1

\* Variant: a filter that matches the completed records only.
OwnedByCompleted(u) ==
    {id \in DOMAIN recs : recs[id].userId = u /\ recs[id].status = "completed"}

\* TranscriptionModel.find({ userId }) / deleteMany({ userId }).
OwnedBy(u) == {id \in DOMAIN recs : recs[id].userId = u}

\* The account request has answered.
AcctDone(r, status) == [r EXCEPT !.pc = "done", !.status = status]

\* deleteAccount up to the await of TranscriptionModel.find: validation,
\* findById and bcrypt.compare.
DeleteAccountStart(u, password) ==
    /\ acct.pc \in {"idle", "done"}
    /\ LET r == [NoAcct EXCEPT !.op = "deleteAccount", !.userId = u,
                               !.owned = {[id |-> id, fileUrl |-> recs[id].fileUrl] :
                                             id \in {x \in DOMAIN recs : recs[x].userId = u}}]
       IN  acct' = IF ~deleteAccountSchema(password) THEN AcctDone(r, 400)
                   ELSE IF u \notin DOMAIN users THEN AcctDone(r, 404)
                   ELSE IF ~compare(password, users[u].password) THEN AcctDone(r, 401)
                   ELSE [r EXCEPT !.pc = "find"]
    /\ UNCHANGED <<authVars, txVars, http>>

\* Variant: a file that cannot be unlinked aborts the request with a 500.
DeleteAccountFindAbort(dbOk, stuck) ==
    /\ acct.op = "deleteAccount" /\ acct.pc = "find"
    /\ IF ~dbOk \/ stuck # {} THEN
           /\ dbOk => stuck \subseteq {recs[id].fileUrl : id \in OwnedBy(acct.userId)} \cap disk
           /\ ~dbOk => stuck = {}
           /\ acct' = [AcctDone(acct, 500) EXCEPT !.stuck = stuck]
           /\ UNCHANGED disk
       ELSE
           LET userTranscriptions == OwnedBy(acct.userId)
               files == {recs[id].fileUrl : id \in userTranscriptions} \cap disk
           IN  /\ disk' = disk \ files
               /\ acct' = [acct EXCEPT !.pc = "deleteMany",
                                       !.found = userTranscriptions,
                                       !.filesDeleted = Cardinality(files)]
    /\ UNCHANGED <<authVars, recs, req, doc, task, res, http>>

\* find answers; the loop unlinks the file of every record found that exists
\* on disk (unlinkSync throws for the files in stuck: logged, the loop goes
\* on), and deleteMany is issued.
DeleteAccountFind(dbOk, stuck) ==
    /\ acct.op = "deleteAccount" /\ acct.pc = "find"
    /\ IF ~dbOk THEN
           /\ stuck = {}
           /\ acct' = AcctDone(acct, 500)
           /\ UNCHANGED disk
       ELSE
           LET userTranscriptions == OwnedBy(acct.userId)
               files == {recs[id].fileUrl : id \in userTranscriptions} \cap disk
           IN  /\ stuck \subseteq files
               /\ disk' = disk \ (files \ stuck)
               /\ acct' = [acct EXCEPT !.pc = "deleteMany",
                                       !.found = userTranscriptions,
                                       !.stuck = stuck,
                                       !.filesDeleted = Cardinality(files \ stuck)]
    /\ UNCHANGED <<authVars, recs, req, doc, task, res, http>>

\* deleteMany({ userId }) answers; findByIdAndDelete is issued.
DeleteAccountDeleteMany(dbOk) ==
    /\ acct.op = "deleteAccount" /\ acct.pc = "deleteMany"
    /\ IF ~dbOk THEN
           /\ acct' = AcctDone(acct, 500)
           /\ UNCHANGED recs
       ELSE
           /\ recs' = [id \in DOMAIN recs \ OwnedBy(acct.userId) |-> recs[id]]
           /\ acct' = [acct EXCEPT !.pc = "deleteUser",
                                   !.deletedCount = Cardinality(OwnedBy(acct.userId))]
    /\ UNCHANGED <<authVars, disk, req, doc, task, res, http>>

\* findByIdAndDelete answers and the response is sent.
DeleteAccountDeleteUser(dbOk) ==
    /\ acct.op = "deleteAccount" /\ acct.pc = "deleteUser"
    /\ IF ~dbOk \/ acct.userId \notin DOMAIN users THEN
           /\ acct' = AcctDone(acct, 500)
           /\ UNCHANGED users
       ELSE
           /\ users' = [x \in DOMAIN users \ {acct.userId} |-> users[x]]
           /\ acct' = AcctDone(acct, 200)
    /\ UNCHANGED <<now, tokens, pending, txVars, http>>

----------------------------------------------------------------------------
(* Account deletion: registered users who own stored transcriptions delete
   their accounts. *)

\* Records stored by earlier uploads: two of the first user (one completed,
\* its file on disk; one failed, its file cleaned up) and one of the second.
ArchiveIds == {11, 12, 13}

ArchiveRecord(id) ==
    LET owner == IF id = 13 THEN 2 ELSE 1
    IN  [userId |-> owner, username |-> RegisteredUser(owner).username,
         email |-> RegisteredUser(owner).email,
         title |-> DefaultTitle, originalFilename |-> ".WAV", fileUrl |-> id,
         mimeType |-> "audio/wav", fileSize |-> 1048576,
         duration |-> 7,
         transcription |-> IF id = 12 THEN "" ELSE "hello world",
         confidence |-> IF id = 12 THEN 0 ELSE 93,
         status |-> IF id = 12 THEN "failed" ELSE "completed",
         source |-> "upload",
         metadata |-> IF id = 12 THEN Absent ELSE "deepgram-metadata"]

InitAccount ==
    /\ users = [i \in TxUsers |-> RegisteredUser(i)]
    /\ now = 0
    /\ tokens = {}
    /\ pending = {}
    /\ http = NoHttp
    /\ acct = NoAcct
    /\ \E stored \in SUBSET ArchiveIds :
          /\ recs = [id \in stored |-> ArchiveRecord(id)]
          /\ disk = {id \in stored : ArchiveRecord(id).status = "completed"}
    /\ req = [s \in Slots |-> NoReq]
    /\ doc = [s \in Slots |-> NoDoc]
    /\ task = [s \in Slots |-> NoTask]
    /\ res = [s \in Slots |-> NoResponse]

NextAccount ==
    \/ \E u \in TxUsers, password \in Passwords \cup {NoPassword} :
          DeleteAccountStart(u, password)
    \/ \E dbOk \in BOOLEAN, stuck \in SUBSET ArchiveIds : DeleteAccountFind(dbOk, stuck)
    \/ \E dbOk \in BOOLEAN : DeleteAccountDeleteMany(dbOk)
    \/ \E dbOk \in BOOLEAN : DeleteAccountDeleteUser(dbOk)

SpecAccount == InitAccount /\ [][NextAccount]_vars

----------------------------------------------------------------------------
(* Repeated submissions: one user uploads the same audio file several times,
   as an upload and as a recording. *)

PairSlots == 1..MaxPair

\* The one file submitted, and the bodies it is submitted with.
SameFile == [present |-> TRUE, ext |-> ".WAV", mimetype |-> "audio/wav", size |-> 1048576]

PairBodies ==
    { [title |-> Absent, source |-> Absent],
      [title |-> Absent, source |-> "recording"] }

InitPair ==
    /\ users = [i \in TxUsers |-> RegisteredUser(i)]
    /\ now = 0
    /\ tokens = {}
    /\ pending = {}
    /\ http = NoHttp
    /\ acct = NoAcct
    /\ recs = <<>>
    /\ disk = {}
    /\ req = [s \in PairSlots |-> NoReq]
    /\ doc = [s \in PairSlots |-> NoDoc]
    /\ task = [s \in PairSlots |-> NoTask]
    /\ res = [s \in PairSlots |-> NoResponse]

NextPair ==
    \/ \E s \in PairSlots, u \in Uploaders, body \in PairBodies :
          UploadReceive(s, u, SameFile, body)
    \/ \E s \in PairSlots : UploadFoundUser(s)
    \/ \E s \in PairSlots, dbOk \in BOOLEAN : UploadSaved(s, dbOk)
    \/ \E s \in PairSlots : TaskRead(s)
    \/ \E s \in PairSlots, response \in ProviderResponses : ProviderAnswer(s, response)
    \/ \E s \in PairSlots, dbOk \in BOOLEAN : ThenSaved(s, dbOk)
    \/ \E s \in PairSlots, dbOk \in BOOLEAN : CatchSaved(s, dbOk)

SpecPair == InitPair /\ [][NextPair]_vars

----------------------------------------------------------------------------
(* utils/fileUpload.ts (user controller): updateProfile *)

\* updateUserSchema: both keys optional (a field is a set, empty when the key
\* is absent); the email is lower-cased.
updateUserSchema(body) ==
    [success |-> /\ \A n \in body.username : usernameSchema(n)
                 /\ \A e \in body.email : emailSchema(e).success,
     username |-> body.username,
     email |-> {emailSchema(e).data : e \in body.email}]

Cat == <<"c", "a", "t">>
EmailUpperC == <<"C", "@", "x", ".", "i", "o">>

\* Bodies of PUT /user/profile.
ProfileBodies ==
    { [username |-> {Cat}, email |-> {}],
      [username |-> {}, email |-> {EmailUpperC}],
      [username |-> {Bob}, email |-> {EmailC}],
      [username |-> {BadUsername}, email |-> {}] }

\* Where the handler goes next once the keys before `after` are dealt with.
ProfileNext(data, after) ==
    IF after = "start" /\ data.email # {} THEN "checkEmail"
    ELSE IF after \in {"start", "checkEmail"} /\ data.username # {} THEN "checkUsername"
    ELSE "write"

\* updateProfile up to its first await.
UpdateProfileStart(u, body) ==
    /\ acct.pc \in {"idle", "done"}
    /\ LET validation == updateUserSchema(body)
           r == [NoAcct EXCEPT !.op = "updateProfile", !.userId = u,
                               !.data = [username |-> validation.username,
                                         email |-> validation.email]]
       IN  acct' = IF ~validation.success THEN AcctDone(r, 400)
                   ELSE [r EXCEPT !.pc = ProfileNext(r.data, "start")]
    /\ UNCHANGED <<authVars, txVars, http>>

\* Variant: the email is written as soon as it is found free, before the
\* username is looked up.
UpdateProfileCheckEmailEager ==
    /\ acct.op = "updateProfile" /\ acct.pc = "checkEmail"
    /\ IF \E x \in DOMAIN users :
             x # acct.userId /\ users[x].email \in acct.data.email
       THEN /\ acct' = AcctDone(acct, 409)
            /\ UNCHANGED users
       ELSE /\ acct' = [acct EXCEPT !.pc = ProfileNext(acct.data, "checkEmail")]
            /\ users' = [x \in DOMAIN users |->
                            IF x = acct.userId
                            THEN [users[x] EXCEPT !.email = CHOOSE e \in acct.data.email : TRUE]
                            ELSE users[x]]
    /\ UNCHANGED <<now, tokens, pending, txVars, http>>

\* findOne({ email, _id: { $ne: userId } }) answers.
UpdateProfileCheckEmail ==
    /\ acct.op = "updateProfile" /\ acct.pc = "checkEmail"
    /\ acct' = IF \E x \in DOMAIN users :
                     x # acct.userId /\ users[x].email \in acct.data.email
               THEN AcctDone(acct, 409)
               ELSE [acct EXCEPT !.pc = ProfileNext(acct.data, "checkEmail")]
    /\ UNCHANGED <<authVars, txVars, http>>

\* findOne({ username, _id: { $ne: userId } }) answers.
UpdateProfileCheckUsername ==
    /\ acct.op = "updateProfile" /\ acct.pc = "checkUsername"
    /\ acct' = IF \E x \in DOMAIN users :
                     x # acct.userId /\ users[x].username \in acct.data.username
               THEN AcctDone(acct, 409)
               ELSE [acct EXCEPT !.pc = ProfileNext(acct.data, "checkUsername")]
    /\ UNCHANGED <<authVars, txVars, http>>

\* The user document after findByIdAndUpdate(userId, updateData).
UpdatedUser(user, data) ==
    [user EXCEPT !.username = IF data.username = {} THEN @
                              ELSE CHOOSE n \in data.username : TRUE,
                 !.email = IF data.email = {} THEN @
                           ELSE CHOOSE e \in data.email : TRUE]

\* The write is refused by a unique index (a duplicate-key error, answered
\* 500 by the catch block).
ProfileIndexConflict(u, updated) ==
    \E x \in DOMAIN users :
        x # u /\ (users[x].username = updated.username \/ users[x].email = updated.email)

\* Variant: the write also rewrites username and email on the user's records.
UpdateProfileWriteCascade ==
    /\ acct.op = "updateProfile" /\ acct.pc = "write"
    /\ IF acct.userId \notin DOMAIN users THEN
           /\ acct' = AcctDone(acct, 404)
           /\ UNCHANGED <<users, recs>>
       ELSE LET updated == UpdatedUser(users[acct.userId], acct.data)
            IN  IF ProfileIndexConflict(acct.userId, updated) THEN
                    /\ acct' = AcctDone(acct, 500)
                    /\ UNCHANGED <<users, recs>>
                ELSE
                    /\ users' = [users EXCEPT ![acct.userId] = updated]
                    /\ recs' = [id \in DOMAIN recs |->
                                   IF recs[id].userId = acct.userId
                                   THEN [recs[id] EXCEPT !.username = updated.username,
                                                         !.email = updated.email]
                                   ELSE recs[id]]
                    /\ acct' = AcctDone(acct, 200)
    /\ UNCHANGED <<now, tokens, pending, disk, req, doc, task, res, http>>

\* findByIdAndUpdate answers and the response is sent.
UpdateProfileWrite ==
    /\ acct.op = "updateProfile" /\ acct.pc = "write"
    /\ IF acct.userId \notin DOMAIN users THEN
           /\ acct' = AcctDone(acct, 404)
           /\ UNCHANGED users
       ELSE LET updated == UpdatedUser(users[acct.userId], acct.data)
            IN  IF ProfileIndexConflict(acct.userId, updated) THEN
                    /\ acct' = AcctDone(acct, 500)
                    /\ UNCHANGED users
                ELSE
                    /\ users' = [users EXCEPT ![acct.userId] = updated]
                    /\ acct' = AcctDone(acct, 200)
    /\ UNCHANGED <<now, tokens, pending, txVars, http>>

----------------------------------------------------------------------------
(* A record's life next to its owner's profile: a user uploads, the provider
   answers, the title is edited and the owner changes username and email. *)

ProfileSlots == {1}

ProfileResponses ==
    {r \in ProviderResponses :
        r.kind = "error" \/ (r.kind = "alternative" /\ r.confidence = {93})}

NextProfile ==
    \/ \E s \in ProfileSlots, u \in Uploaders, body \in PairBodies :
          UploadReceive(s, u, SameFile, body)
    \/ \E s \in ProfileSlots : UploadFoundUser(s)
    \/ \E s \in ProfileSlots, dbOk \in BOOLEAN : UploadSaved(s, dbOk)
    \/ \E s \in ProfileSlots : TaskRead(s)
    \/ \E s \in ProfileSlots, response \in ProfileResponses : ProviderAnswer(s, response)
    \/ \E s \in ProfileSlots, dbOk \in BOOLEAN : ThenSaved(s, dbOk)
    \/ \E s \in ProfileSlots, dbOk \in BOOLEAN : CatchSaved(s, dbOk)
    \/ \E u \in TxUsers, id \in ProfileSlots, body \in UpdateBodies :
          updateTranscription(u, id, body)
    \/ \E u \in Uploaders, body \in ProfileBodies : UpdateProfileStart(u, body)
    \/ UpdateProfileCheckEmail
    \/ UpdateProfileCheckUsername
    \/ UpdateProfileWrite

SpecProfile == Init /\ [][NextProfile]_vars

----------------------------------------------------------------------------
(* Usernames and emails: clients register while existing users change their
   profiles, every request split at its awaits. *)

\* Bodies of POST /auth/register that name what the profile updates name.
DirectoryBodies ==
    { [username |-> Bob, email |-> EmailB, password |-> Secret1],
      [username |-> Cat, email |-> EmailC, password |-> Secret1],
      [username |-> Bob, email |-> EmailUpperC, password |-> Secret1] }

InitDirectory ==
    /\ users = [i \in {1} |-> RegisteredUser(i)]
    /\ now = 0
    /\ tokens = {}
    /\ pending = {}
    /\ http = NoHttp
    /\ NoUploads

NextDirectory ==
    \/ \E id \in 1..MaxPending, body \in DirectoryBodies : RegisterLookup(id, body)
    \/ \E q \in pending : RegisterSave(q)
    \/ \E u \in TxUsers, body \in ProfileBodies : UpdateProfileStart(u, body)
    \/ UpdateProfileCheckEmail
    \/ UpdateProfileCheckUsername
    \/ UpdateProfileWrite

SpecDirectory == InitDirectory /\ [][NextDirectory]_vars

----------------------------------------------------------------------------
(* controllers/transcriptionController.ts: the read handlers *)

NotFound == [status |-> 404, body |-> {}]

\* Variant: a lookup by id alone.
findOneById(u, id) == {x \in DOMAIN recs : x = id}

\* TranscriptionModel.findOne({ _id: id, userId }): the matching records.
findOne(u, id) == {x \in DOMAIN recs : x = id /\ recs[x].userId = u}

\* What a response carries of a record.
Content(id, fields) == [id |-> id, fields |-> [f \in fields |-> recs[id][f]]]

RecordFields ==
    {"userId", "username", "email", "title", "originalFilename", "fileUrl",
     "mimeType", "fileSize", "duration", "transcription", "confidence",
     "status", "source", "metadata"}

\* The status filters of GET /transcriptions.
StatusFilters == {Absent, "all", "completed", "failed"}

\* getTranscriptions: find({ userId, status? }).select("-metadata").
getTranscriptionsResponse(u, status) ==
    [status |-> 200,
     body |-> {Content(x, RecordFields \ {"metadata"}) :
                  x \in {y \in DOMAIN recs :
                            /\ recs[y].userId = u
                            /\ status \in {Absent, "all"} \/ recs[y].status = status}}]

getTranscriptionResponse(u, id) ==
    IF findOne(u, id) = {} THEN NotFound
    ELSE [status |-> 200, body |-> {Content(id, RecordFields)}]

\* downloadTranscription: the transcript of a completed record (as text, or
\* with title, duration, confidence and metadata as JSON).
downloadTranscriptionResponse(u, id, format) ==
    IF findOne(u, id) = {} THEN NotFound
    ELSE IF recs[id].status # "completed" THEN [status |-> 400, body |-> {}]
    ELSE [status |-> 200,
          body |-> {Content(id, IF format = "json"
                                THEN {"title", "transcription", "duration",
                                      "confidence", "metadata"}
                                ELSE {"transcription"})}]

\* downloadAudioFile: the audio bytes stored with the record (audioData, the
\* base64 of the uploaded file: empty for an empty file).
downloadAudioFileResponse(u, id) ==
    IF findOne(u, id) = {} THEN NotFound
    ELSE IF recs[id].fileSize = 0 THEN NotFound
    ELSE [status |-> 200,
          body |-> {Content(id, {"mimeType", "originalFilename", "fileSize"})}]

\* A read handler answers: nothing but the response changes.
Answer(op, response) ==
    /\ http' = [op |-> op, status |-> response.status, code |-> Absent]
    /\ UNCHANGED <<authVars, txVars, acct>>

getTranscriptions(u, status) ==
    Answer("getTranscriptions", getTranscriptionsResponse(u, status))

getTranscription(u, id) ==
    Answer("getTranscription", getTranscriptionResponse(u, id))

downloadTranscription(u, id, format) ==
    Answer("downloadTranscription", downloadTranscriptionResponse(u, id, format))

downloadAudioFile(u, id) ==
    Answer("downloadAudioFile", downloadAudioFileResponse(u, id))

----------------------------------------------------------------------------
(* The library: two users who own stored transcriptions read, edit, download
   and delete records by id, their own and each other's. *)

NextLibrary ==
    \/ \E u \in TxUsers, status \in StatusFilters : getTranscriptions(u, status)
    \/ \E u \in TxUsers, id \in ArchiveIds : getTranscription(u, id)
    \/ \E u \in TxUsers, id \in ArchiveIds, body \in UpdateBodies :
          updateTranscription(u, id, body)
    \/ \E u \in TxUsers, id \in ArchiveIds, password \in Passwords \cup {NoPassword} :
          deleteTranscription(u, id, password)
    \/ \E u \in TxUsers, id \in ArchiveIds, format \in {"txt", "json"} :
          downloadTranscription(u, id, format)
    \/ \E u \in TxUsers, id \in ArchiveIds : downloadAudioFile(u, id)

SpecLibrary == InitAccount /\ [][NextLibrary]_vars

----------------------------------------------------------------------------
(* Removal: a user uploads and, while the requests and their background
   tasks are in flight, deletes records and the account. The database and
   the file system are healthy: a save is refused only for a record that is
   no longer stored. *)

NextRemoval ==
    \/ \E s \in Slots, u \in Uploaders, body \in PairBodies :
          UploadReceive(s, u, SameFile, body)
    \/ \E s \in Slots : UploadFoundUser(s)
    \/ \E s \in Slots : UploadSaved(s, TRUE)
    \/ \E s \in Slots : TaskRead(s)
    \/ \E s \in Slots, response \in ProfileResponses : ProviderAnswer(s, response)
    \/ \E s \in Slots : ThenSaved(s, TRUE)
    \/ \E s \in Slots : CatchSaved(s, TRUE)
    \/ \E u \in Uploaders, id \in Slots, password \in Passwords :
          deleteTranscription(u, id, password)
    \/ \E u \in Uploaders, password \in Passwords : DeleteAccountStart(u, password)
    \/ DeleteAccountFind(TRUE, {})
    \/ DeleteAccountDeleteMany(TRUE)
    \/ DeleteAccountDeleteUser(TRUE)

SpecRemoval == Init /\ [][NextRemoval]_vars

----------------------------------------------------------------------------
(* Properties of the transcription lifecycle (checked under Spec) *)

Terminal == {"completed", "failed"}

\* The background task of slot s has run to its end: its last save() has
\* answered, or its rejection went unhandled.
TaskEnded(s) == task[s].pc \in {"done", "crashed"}

\* C1: every accepted upload is answered 201 no later than its provider call
\* is started (the handler does not await it), and the status in that
\* response is "processing" however and whenever the provider call resolves.
C1_RespondsProcessingWithoutAwaiting ==
    \A s \in Slots :
        /\ (task[s].pc # "none" \/ s \in DOMAIN recs)
              => res[s] = [status |-> 201, recStatus |-> "processing"]
        /\ res[s].status = 201 => res[s].recStatus = "processing"

\* An upload answered 201/processing whose provider call has since completed
\* the record.
C1_Witness ==
    \E s \in Slots :
        /\ res[s] = [status |-> 201, recStatus |-> "processing"]
        /\ TaskEnded(s)
        /\ s \in DOMAIN recs /\ recs[s].status = "completed"

\* C2: every record created by uploadAndTranscribe reaches a terminal status:
\* once its background task has ended, whatever failure path it took, the
\* stored record is "completed" or "failed".
C2_EveryRecordReachesTerminal ==
    \A s \in Slots :
        (TaskEnded(s) /\ s \in DOMAIN recs) => recs[s].status \in Terminal

\* C3: a record whose provider call failed ends "failed", with an empty
\* transcript and its backing file gone from disk.
C3_FailedCallEndsFailedAndCleaned ==
    \A s \in Slots :
        (TaskEnded(s) /\ task[s].answered = "error" /\ s \in DOMAIN recs)
            => /\ recs[s].status = "failed"
               /\ recs[s].transcription = ""
               /\ recs[s].fileUrl \notin disk

\* C4: a record whose provider call succeeded ends "completed", with a
\* non-empty transcript, a confidence in [0,1] and transcript, confidence,
\* duration and metadata taken from the provider result.
C4_SucceededCallEndsCompleted ==
    \A s \in Slots :
        (TaskEnded(s) /\ task[s].answered = "ok" /\ s \in DOMAIN recs)
            => LET result == transcribe(task[s].response)
               IN  /\ recs[s].status = "completed"
                   /\ recs[s].transcription # ""
                   /\ ConfidenceValid(recs[s].confidence)
                   /\ recs[s].transcription = result.transcription
                   /\ recs[s].confidence = result.confidence
                   /\ result.duration # 0 => recs[s].duration = result.duration
                   /\ recs[s].metadata = result.metadata

\* C5: "completed" and "failed" are terminal: no step changes the status of a
\* stored record that is completed or failed, as long as the record is stored.
C5_TerminalStatusNeverChanges ==
    [][\A s \in Slots :
          (s \in DOMAIN recs /\ recs[s].status \in Terminal /\ s \in DOMAIN recs')
              => recs'[s].status = recs[s].status]_vars

\* A terminal record whose owner has since had an update answered 200.
C5_Witness ==
    \E s \in Slots :
        /\ s \in DOMAIN recs /\ recs[s].status \in Terminal
        /\ TaskEnded(s)
        /\ recs[s].title = "Edit"
        /\ http = [op |-> "updateTranscription", status |-> 200, code |-> Absent]

\* C6: in every state of every stored record the transcript is empty exactly
\* when the status is "processing" or "failed".
C6_TranscriptEmptyIffNotCompleted ==
    \A s \in DOMAIN recs :
        (recs[s].transcription = "") <=> (recs[s].status \in {"processing", "failed"})

\* The provider's answer carries no usable transcript: no alternative, or an
\* alternative whose transcript is missing or the empty string.
EmptyOrMalformed(response) ==
    \/ response.kind = "noalternative"
    \/ response.kind = "alternative" /\ response.transcript \subseteq {""}

\* C7: on an empty or malformed provider response the provider client fails
\* and the record goes to "failed", never to "completed".
C7_EmptyResponseNeverCompletes ==
    \A s \in Slots :
        EmptyOrMalformed(task[s].response)
            => /\ task[s].answered = "error"
               /\ s \in DOMAIN recs => recs[s].status # "completed"

----------------------------------------------------------------------------
(* Properties of sessions (checked under SpecAuth), of the lockout (checked
   under SpecLogin) and of registration (checked under SpecRegister) *)

\* The token was issued for an epoch the account has since left.
Stale(t) ==
    /\ t.userId \in DOMAIN users
    /\ t.tokenVersion < users[t.userId].tokenVersion

\* C8: an access token issued by login before a successful logoutAllDevices
\* of its account is rejected by authenticateToken afterwards, although its
\* signature is valid and it has not expired.
C8_StaleTokenRejected ==
    \A t \in tokens : Stale(t) => ~authenticateToken(t).ok

AccountLocked == [op |-> "login", status |-> 423, code |-> "ACCOUNT_LOCKED"]

\* C9: the wrong-password login that is the MaxLoginAttempts-th in a row for
\* an unlocked account locks it, and every login for a locked account, the correct
\* password included, is answered 423 ACCOUNT_LOCKED, issues no token and
\* leaves the account as it is.
C9_LockedAccountRejectsLogin ==
    [][\A body \in LoginBodies :
          (login(body) /\ loginUserSchema(body).success)
              => \A u \in UserByEmail(loginUserSchema(body).email) :
                    /\ isLocked(users[u])
                          => /\ http' = AccountLocked
                             /\ tokens' = tokens
                             /\ users' = users
                    /\ ( /\ users[u].lockUntil = 0
                         /\ users[u].isActive
                         /\ ~compare(body.password, users[u].password)
                         /\ users[u].loginAttempts = MaxLoginAttempts - 1 )
                          => /\ users'[u].lockUntil > now
                             /\ tokens' = tokens]_vars

\* An account locked by MaxLoginAttempts wrong passwords whose last login,
\* made after an earlier successful one, was answered 423.
C9_Witness ==
    /\ http = AccountLocked
    /\ tokens # {}
    /\ \E u \in DOMAIN users :
          isLocked(users[u]) /\ users[u].loginAttempts >= MaxLoginAttempts

\* Some stored account has this email, letter case ignored.
EmailTaken(email) ==
    \E u \in DOMAIN users : toLowerCase(users[u].email) = toLowerCase(email)

\* C10: a registration made when an account with the same email, letter case
\* ignored, exists is answered 409 and creates no user, whatever its
\* username: both the step that looks the email up and the step that saves
\* the new user.
C10_DuplicateEmailConflicts ==
    [][/\ \A id \in 1..MaxPending, body \in RegisterBodies :
             ( /\ RegisterLookup(id, body)
               /\ insertUserSchema(body).success
               /\ EmailTaken(body.email) )
                 => http'.status = 409 /\ users' = users /\ pending' = pending
       /\ \A q \in pending :
             (RegisterSave(q) /\ EmailTaken(q.email))
                 => http'.status = 409 /\ users' = users]_vars

----------------------------------------------------------------------------
(* Properties of account deletion (checked under SpecAccount) *)

DeleteAccountAnswered(status) ==
    acct.op = "deleteAccount" /\ acct.pc = "done" /\ acct.status = status

C12_WrongPasswordChangesNothing ==
    [][\A u \in TxUsers, password \in Passwords :
          ( /\ DeleteAccountStart(u, password)
            /\ u \in DOMAIN users
            /\ Hash(password) # users[u].password )
              => /\ acct'.pc = "done" /\ acct'.status = 401
                 /\ users' = users /\ recs' = recs /\ disk' = disk]_vars

\* A wrong password was answered 401 to a user who owns records with files.
C12_Witness ==
    /\ DeleteAccountAnswered(401)
    /\ acct.userId \in DOMAIN users
    /\ \E id \in OwnedBy(acct.userId) : recs[id].fileUrl \in disk

----------------------------------------------------------------------------
(* Properties of upload ingest and of the initial save (checked under Spec) *)

\* C13: an upload whose file fails the presence, type or size check is
\* answered 400 by the step that receives it, which creates no record and
\* starts no provider call.
C13_RejectedUploadAnswers400 ==
    [][\A s \in Slots, u \in Uploaders, file \in Files, body \in CreateBodies :
          (UploadReceive(s, u, file, body) /\ ~validateAudioFile(file))
              => /\ res'[s].status = 400
                 /\ recs' = recs
                 /\ task' = task]_vars

\* C14: when the save of the initial "processing" record fails, the uploaded
\* file is removed from disk, no provider call is started, no record is
\* stored and the request is answered with an error (500).
C14_FailedInitialSaveCleansUp ==
    [][\A s \in Slots :
          UploadSaved(s, FALSE)
              => /\ req[s].path \notin disk'
                 /\ task'[s] = NoTask
                 /\ s \notin DOMAIN recs'
                 /\ res'[s].status = 500]_vars

\* An upload whose file had been stored was answered 500 without a record.
C14_Witness ==
    \E s \in Slots :
        /\ req[s].pc = "done" /\ req[s].path = s
        /\ res[s].status = 500
        /\ s \notin DOMAIN recs /\ s \notin disk /\ task[s] = NoTask

\* C15: the step that starts the provider call of a submission leaves its
\* record stored in "processing" state, and a step that gives a record a
\* terminal status is an outcome write of its task on a record stored before.
C15_RecordStoredBeforeProviderCall ==
    [][\A s \in Slots :
          /\ (task[s].pc = "none" /\ task'[s].pc # "none")
                => /\ req[s].pc = "saving"
                   /\ s \in DOMAIN recs' /\ recs'[s].status = "processing"
          /\ ( /\ s \in DOMAIN recs' /\ recs'[s].status \in Terminal
               /\ ~(s \in DOMAIN recs /\ recs[s].status \in Terminal) )
                => /\ s \in DOMAIN recs /\ recs[s].status = "processing"
                   /\ task[s].pc \in {"thenSave", "catchSave"}]_vars

\* The provider call of a submission is in flight and its record is stored
\* in "processing" state.
C15_Witness ==
    \E s \in Slots :
        /\ task[s].pc = "calling"
        /\ s \in DOMAIN recs /\ recs[s].status = "processing"

----------------------------------------------------------------------------
(* Properties of repeated submissions (checked under SpecPair) *)

\* Position of a background task in its run: not started, reading the file,
\* provider call in flight, outcome write issued, ended.
Stage(pc) ==
    CASE pc = "none" -> 0
      [] pc = "reading" -> 1
      [] pc = "calling" -> 2
      [] pc \in {"thenSave", "catchSave"} -> 3
      [] OTHER -> 4

\* C16: a submission's task never goes back to an earlier stage and, once its
\* provider call has been answered, never calls the provider again (one
\* attempt, no retry); every accepted submission has a record and a task of
\* its own, and a step of one task leaves the other submissions' records,
\* documents and tasks alone.
C16_OneProviderCallPerRecord ==
    [][\A s \in PairSlots :
          /\ Stage(task'[s].pc) >= Stage(task[s].pc)
          /\ Stage(task'[s].pc) <= 2 => task'[s].answered = "no"
          /\ res'[s].status = 201 => (s \in DOMAIN recs' /\ task'[s].pc # "none")
          /\ task'[s] # task[s]
                => \A o \in PairSlots \ {s} :
                      /\ task'[o] = task[o] /\ doc'[o] = doc[o]
                      /\ (o \in DOMAIN recs) = (o \in DOMAIN recs')
                      /\ o \in DOMAIN recs => recs'[o] = recs[o]]_vars

\* Two uploads of the same bytes have two records and two answered provider
\* calls, one failed and one succeeded.
C16_Witness ==
    \E s, o \in PairSlots :
        /\ s # o
        /\ {s, o} \subseteq DOMAIN recs
        /\ recs[s].fileSize = recs[o].fileSize /\ recs[s].source = recs[o].source
        /\ task[s].pc = "done" /\ task[s].answered = "error"
        /\ task[o].pc = "done" /\ task[o].answered = "ok"
        /\ recs[s].status = "failed" /\ recs[o].status = "completed"

\* The task of slot s has ended and every save() it issued was accepted (a
\* succeeded call that ends in the .catch handler had its first save refused).
WritesSucceeded(s) ==
    /\ task[s].pc = "done"
    /\ ~(task[s].answered = "ok" /\ doc[s].status = "failed")

\* What the claim compares of a submission once its task has ended.
Outcome(s) ==
    [status |-> recs[s].status, transcription |-> recs[s].transcription,
     confidence |-> recs[s].confidence, duration |-> recs[s].duration,
     fileOnDisk |-> recs[s].fileUrl \in disk]

\* C20: an upload and a recording of the same file whose provider calls got
\* the same answer, and whose writes were accepted, end with the same status,
\* transcript, confidence, duration and file-on-disk state.
C20_ProvenanceMakesNoDifference ==
    \A s, o \in PairSlots :
        ( /\ {s, o} \subseteq DOMAIN recs
          /\ recs[s].source = "upload" /\ recs[o].source = "recording"
          /\ task[s].via = "file" /\ task[o].via = "buffer"
          /\ WritesSucceeded(s) /\ WritesSucceeded(o)
          /\ task[s].response = task[o].response )
            => Outcome(s) = Outcome(o)

\* An upload and a recording of the same file, both answered with an empty
\* transcript by the provider, have ended.
C20_Witness ==
    \E s, o \in PairSlots :
        /\ {s, o} \subseteq DOMAIN recs
        /\ recs[s].source = "upload" /\ recs[o].source = "recording"
        /\ WritesSucceeded(s) /\ WritesSucceeded(o)
        /\ task[s].response = task[o].response
        /\ task[s].response.transcript = {""}

----------------------------------------------------------------------------
(* Properties of token verification (checked under SpecAuth) and of login
   rejections (checked under SpecLogin) *)

\* C17: authenticateToken answers TOKEN_MISSING when no token is presented,
\* TOKEN_EXPIRED for an expired token, TOKEN_INVALID for a malformed token
\* (never TOKEN_EXPIRED) and for a token whose signature or epoch does not
\* match, and every rejection is a 401 or a 403.
C17_RejectionCodes ==
    \A t \in Presented :
        LET auth == authenticateToken(t)
        IN  /\ t.kind = "none" => auth.code = "TOKEN_MISSING"
            /\ t.kind = "garbage" => auth.code = "TOKEN_INVALID"
            /\ (t.kind = "jwt" /\ t.exp < now) => auth.code = "TOKEN_EXPIRED"
            /\ (t.kind = "jwt" /\ now < t.exp /\ (t.sig # "valid" \/ Stale(t)))
                  => auth.code = "TOKEN_INVALID"
            /\ ~auth.ok => auth.status \in {401, 403}

InvalidCredentials == [op |-> "login", status |-> 401, code |-> "INVALID_CREDENTIALS"]

\* C18: a login rejected because the email is unknown and a login rejected
\* because the password is wrong get the same response, 401
\* INVALID_CREDENTIALS, whatever the state of the account.
C18_UniformLoginRejection ==
    [][\A body \in LoginBodies :
          (login(body) /\ loginUserSchema(body).success)
              => LET found == UserByEmail(loginUserSchema(body).email)
                 IN  ( \/ found = {}
                       \/ \E u \in found : Hash(body.password) # users[u].password )
                        => http' = InvalidCredentials]_vars

----------------------------------------------------------------------------
(* Properties of a record next to its owner's profile (checked under
   SpecProfile) *)

ImmutableFields ==
    {"userId", "username", "email", "originalFilename", "mimeType", "fileSize"}

\* C19: no step changes userId, username, email, originalFilename, mimeType
\* or fileSize of a stored record: not the background completion or failure
\* write, not updateTranscription, not updateProfile of the owner.
C19_CreationFieldsImmutable ==
    [][\A id \in DOMAIN recs \cap DOMAIN recs' :
          \A f \in ImmutableFields : recs'[id][f] = recs[id][f]]_vars

\* A completed record with an edited title whose owner has since changed
\* username and email: the record keeps the old ones.
C19_Witness ==
    \E id \in DOMAIN recs :
        /\ recs[id].status = "completed" /\ recs[id].title = "Edit"
        /\ recs[id].userId \in DOMAIN users
        /\ users[recs[id].userId].username # recs[id].username
        /\ users[recs[id].userId].email # recs[id].email
        /\ acct.op = "updateProfile" /\ acct.pc = "done" /\ acct.status = 200

----------------------------------------------------------------------------
(* Properties of usernames and emails (checked under SpecDirectory) *)

UniqueUsers ==
    \A x, y \in DOMAIN users :
        x # y => /\ users[x].username # users[y].username
                 /\ users[x].email # users[y].email

\* C21: under every interleaving of register and updateProfile, no two users
\* share a username or an email; every step of an updateProfile that does not
\* answer 200 leaves the user records as they are (a free email is not
\* written when the username turns out taken), and so does a register step
\* (the only steps that touch pending or the last response) that answers a
\* conflict, 409 from the lookup or 500 from the index.
C21_UniqueAndNoPartialWrite ==
    /\ []UniqueUsers
    /\ [][/\ (acct' # acct /\ acct'.op = "updateProfile" /\ acct'.status # 200)
                => users' = users
          /\ ( /\ pending' # pending \/ http' # http
               /\ http'.op = "register" /\ http'.status \in {409, 500} )
                => users' = users]_vars

\* An updateProfile carrying a free email and the username of an account
\* registered meanwhile was answered 409, and its user keeps the old email.
C21_Witness ==
    /\ acct.op = "updateProfile" /\ acct.pc = "done" /\ acct.status = 409
    /\ acct.data = [username |-> {Bob}, email |-> {EmailC}]
    /\ acct.userId \in DOMAIN users
    /\ users[acct.userId].email = EmailA
    /\ Cardinality(DOMAIN users) = 2
    /\ \A x \in DOMAIN users : users[x].email # EmailC

----------------------------------------------------------------------------
(* Properties of ingest, of deleteTranscription and of the upload's file
   (checked under Spec) *)

\* The file is given, within the size cap, and its extension or its MIME type
\* is allow-listed.
IngestRequirements(file) ==
    /\ file.present
    /\ file.size <= MaxFileSize
    /\ \/ ExtToLowerCase(file.ext) \in allowedExtensions
       \/ file.mimetype \in allowedMimes

\* C22: ingest lets an upload through to the handler's work only if a file is
\* given, its size is at most 50 MiB and its extension/MIME type is
\* allow-listed; every other upload is rejected with a validation error (400)
\* and stores no record.
C22_IngestAcceptsOnlyValidFiles ==
    [][\A s \in Slots, u \in Uploaders, file \in Files, body \in CreateBodies :
          UploadReceive(s, u, file, body)
              => /\ req'[s].pc = "findUser" => IngestRequirements(file)
                 /\ ~IngestRequirements(file)
                       => /\ req'[s].pc = "done"
                          /\ res'[s] = [status |-> 400, recStatus |-> Absent]
                          /\ recs' = recs]_vars

\* C24: deleteTranscription with a missing password answers 400 and with a
\* wrong password 401, and both leave every record and every file as they
\* are; with the owner's correct password it answers 200, the record is no
\* longer stored and its file is no longer on disk.
C24_DeleteRequiresPassword ==
    [][\A u \in TxUsers, id \in Slots, password \in Passwords \cup {NoPassword} :
          deleteTranscription(u, id, password)
              => /\ password = NoPassword
                       => http'.status = 400 /\ recs' = recs /\ disk' = disk
                 /\ (password # NoPassword /\ Hash(password) # users[u].password)
                       => http'.status = 401 /\ recs' = recs /\ disk' = disk
                 /\ ( /\ Hash(password) = users[u].password
                      /\ id \in DOMAIN recs /\ recs[id].userId = u )
                       => /\ http'.status = 200
                          /\ id \notin DOMAIN recs'
                          /\ recs[id].fileUrl \notin disk'
                          /\ \A o \in DOMAIN recs \ {id} :
                                o \in DOMAIN recs' /\ recs'[o] = recs[o]]_vars

\* A completed record, whose file was kept, has been deleted by its owner:
\* neither the record nor the file is left.
C24_Witness ==
    /\ http = [op |-> "deleteTranscription", status |-> 200, code |-> Absent]
    /\ \E s \in Slots :
          /\ res[s].status = 201
          /\ task[s].pc = "done" /\ doc[s].status = "completed"
          /\ s \notin DOMAIN recs /\ req[s].path \notin disk

\* C27: an upload request that has ended without a record (answered 400, 404
\* or 500) has left no file of its own in the upload directory.
C27_RejectedUploadLeavesNoFile ==
    \A s \in Slots :
        (req[s].pc = "done" /\ res[s].status \in {400, 404, 500}) => s \notin disk

\* C29: a title written by updateTranscription while the record is
\* "processing" is stored at once, and the step that gives the record its
\* terminal status (the save of the .then or of the .catch callback) leaves
\* the stored title as it is.
C29_TitleUpdateNotLost ==
    [][\A s \in Slots :
          (s \in DOMAIN recs /\ recs[s].status = "processing")
              => /\ \A u \in TxUsers, body \in UpdateBodies :
                       ( /\ updateTranscription(u, s, body)
                         /\ http'.status = 200 /\ body.title # Absent )
                           => /\ recs'[s].title = body.title
                              /\ recs'[s].status = "processing"
                 /\ (s \in DOMAIN recs' /\ recs'[s].status \in Terminal)
                       => recs'[s].title = recs[s].title]_vars

\* A record created as "Memo" or with the default title is completed and
\* carries the edited title, which its in-memory document never had.
C29_Witness ==
    \E s \in Slots :
        /\ s \in DOMAIN recs /\ recs[s].status = "completed"
        /\ task[s].pc = "done" /\ task[s].answered = "ok"
        /\ recs[s].title = "Edit" /\ doc[s].title # "Edit"

----------------------------------------------------------------------------
(* Properties of a deleteAccount whose file deletions fail (checked under
   SpecAccount) *)

\* C23: a file that cannot be deleted does not abort deleteAccount: the step
\* that unlinks the files goes on to deleteMany whichever unlink throws, and
\* counts in filesDeleted the files it removed; a request answered 200 has
\* removed the user and every record the user owned, and reports their
\* number.
C23_FileFailureDoesNotAbort ==
    /\ [](DeleteAccountAnswered(200)
            => /\ acct.userId \notin DOMAIN users
               /\ OwnedBy(acct.userId) = {}
               /\ \A o \in acct.owned : o.id \notin DOMAIN recs
               /\ acct.deletedCount = Cardinality(acct.owned)
               /\ acct.stuck \subseteq disk)
    /\ [][\A stuck \in SUBSET ArchiveIds :
             DeleteAccountFind(TRUE, stuck)
                 => /\ acct'.pc = "deleteMany"
                    /\ acct'.filesDeleted = Cardinality(disk \ disk')
                    /\ disk' \cap stuck = stuck]_vars

\* An account was deleted although the file of one of its records could not
\* be unlinked: the file is still on disk and was not counted.
C23_Witness ==
    /\ DeleteAccountAnswered(200)
    /\ acct.stuck # {} /\ acct.stuck \subseteq disk
    /\ acct.filesDeleted = 0
    /\ Cardinality(acct.owned) = 2

----------------------------------------------------------------------------
(* Properties of logout (checked under SpecAuth) *)

\* C25: once a logout has been answered 200, the access token presented on
\* it is rejected by authenticateToken.
C25_LogoutInvalidatesToken ==
    [][\A t \in Presented :
          (logout(t) /\ http'.status = 200) => ~(authenticateToken(t).ok)']_vars

----------------------------------------------------------------------------
(* Properties of the library (checked under SpecLibrary) *)

\* Record id is stored and u is not its owner.
Foreign(u, id) == id \in DOMAIN recs /\ recs[id].userId # u

\* C26: for every user u and stored record that u does not own, the reads by
\* id (getTranscription, downloadTranscription, downloadAudioFile) answer 404
\* without content and the list of u leaves the record out; an
\* updateTranscription with a valid body and a deleteTranscription with u's
\* correct password answer 404, and no request of u changes the record or
\* its file.
C26_CrossUserIsolation ==
    /\ [](\A u \in TxUsers, id \in ArchiveIds :
             Foreign(u, id)
                 => /\ getTranscriptionResponse(u, id) = NotFound
                    /\ \A format \in {"txt", "json"} :
                          downloadTranscriptionResponse(u, id, format) = NotFound
                    /\ downloadAudioFileResponse(u, id) = NotFound
                    /\ \A status \in StatusFilters :
                          \A c \in getTranscriptionsResponse(u, status).body : c.id # id)
    /\ [][\A u \in TxUsers, id \in ArchiveIds :
             Foreign(u, id)
                 => /\ \A body \in UpdateBodies :
                          updateTranscription(u, id, body)
                              => /\ updateTranscriptionSchema(body).success
                                       => http'.status = 404
                                 /\ http'.status # 200
                                 /\ recs' = recs /\ disk' = disk
                    /\ \A password \in Passwords \cup {NoPassword} :
                          deleteTranscription(u, id, password)
                              => /\ Hash(password) = users[u].password
                                       => http'.status = 404
                                 /\ http'.status # 200
                                 /\ recs' = recs /\ disk' = disk
                    /\ ( \/ getTranscription(u, id)
                         \/ downloadAudioFile(u, id)
                         \/ \E format \in {"txt", "json"} :
                               downloadTranscription(u, id, format) )
                          => http'.status = 404 /\ recs' = recs /\ disk' = disk]_vars

\* Every archived record is stored, so a delete answered 404 was a delete,
\* with the correct password, of a record of the other user: the record and
\* its file are still there.
C26_Witness ==
    /\ http = [op |-> "deleteTranscription", status |-> 404, code |-> Absent]
    /\ DOMAIN recs = ArchiveIds
    /\ \A id \in ArchiveIds :
          recs[id].status = "completed" => recs[id].fileUrl \in disk

----------------------------------------------------------------------------
(* Properties of removal (checked under SpecRemoval) *)

\* C28: once deleteAccount of a user has been answered 200, no stored record
\* has that user as its owner and no file of a record the user owned is on
\* disk, in that state and in every later one, whatever uploads of the user
\* interleave with it.
C28_NoRecordOutlivesAccount ==
    DeleteAccountAnswered(200)
        => /\ \A id \in DOMAIN recs : recs[id].userId # acct.userId
           /\ \A o \in acct.owned : o.fileUrl \notin disk

\* The record of submission s was stored (its task was started) and has
\* since been deleted.
Deleted(s) == task[s].pc # "none" /\ s \notin DOMAIN recs

\* C30: a record deleted by deleteTranscription or deleteAccount stays
\* deleted: no later step, the saves of its task's .then and .catch callbacks
\* included, stores a record under its id again or puts its file back on
\* disk.
C30_DeletedRecordStaysDeleted ==
    [][\A s \in Slots :
          Deleted(s)
              => /\ s \notin DOMAIN recs'
                 /\ req[s].path \notin disk => req[s].path \notin disk']_vars

\* The record was deleted while its provider call was in flight: the call
\* succeeded, both saves of the task were refused, and neither the record nor
\* its file is there.
C30_Witness ==
    \E s \in Slots :
        /\ Deleted(s)
        /\ task[s].pc = "crashed" /\ task[s].answered = "ok"
        /\ req[s].path \notin disk

====
